---- MODULE Spec2Model ----
(***************************************************************************)
(* Model of the ordered translation queue of alien-translator:            *)
(* utils/queue_manager.py (TranslationQueueManager) and the queueclear     *)
(* command of bot.py.                                                      *)
(*                                                                         *)
(* Two kinds of threads of control exist in the program: the asyncio       *)
(* event loop, on which every command handler and on_message runs (one     *)
(* handler at a time), and the daemon threads that run _process_queue.     *)
(* The event loop is the variable mainpc; the worker threads are the       *)
(* functions pc and job over Threads.                                      *)
(*                                                                         *)
(* A worker thread takes one step per access to a shared field: line 49,   *)
(* the loop condition, get(), and then the translation, the dispatch and   *)
(* the sleep.  add_message, start, resume, pause and stop are one step     *)
(* each: between put() and the start condition a worker step either        *)
(* commutes with the put (it sets the flag or ends) or with the condition  *)
(* (it dequeues), and the condition reads worker_running, which a worker   *)
(* only ever sets to True.  clear_queue is a loop of queue operations and  *)
(* is modelled step by step, as is queueclear around it.                   *)
(*                                                                         *)
(* pc[t] = "dead" is a Thread slot with no running thread: never started,  *)
(* or returned from _process_queue.  A new Thread takes a free slot; the   *)
(* old Thread object is unreachable once worker_thread is overwritten.     *)
(***************************************************************************)
EXTENDS Integers, Sequences, FiniteSets

\* Bounds of the model: worker threads that can be alive at the same time,
\* and messages handed to add_message in one run.
MaxThreads == 2
MaxJobs == 2

Threads == 1..MaxThreads
Jobs == 1..MaxJobs
\* worker_thread = None
NoThread == 0
\* a worker thread that holds no job
NoJob == 0

VARIABLES
    translation_queue,  \* Queue(): the pending jobs, oldest first
    unfinished_tasks,   \* Queue.unfinished_tasks: put() adds one, task_done() takes one
    worker_running,     \* self.worker_running
    worker_thread,      \* self.worker_thread: the Thread created last, or NoThread
    pc,                 \* pc[t]: where thread t is in _process_queue
    job,                \* job[t]: the local variable job of thread t
    mainpc,             \* where the event loop is: "idle" between handlers
    queue_size,         \* queueclear's local queue_size
    nextJob,            \* jobs are numbered in the order of add_message
    \* history variables, read by the properties only
    published,          \* the jobs whose publish was dispatched, in dispatch order
    nRemoved,           \* nRemoved[j]: how often j was taken out of the queue
    nTranslated,        \* nTranslated[j]: how often j was handed to the translation
    fate,               \* fate[j]: how the processing of j ended
    translated,         \* translated[j]: what translate_message_with_links returned for j
    nCleared,           \* jobs removed by the clear_queue call in progress
    lastOp,             \* the lifecycle method the event loop called last
    paused,             \* pause() was called and neither start() nor resume() since
    clearedSince,       \* clearedSince[t]: pause()/stop() ran after t set worker_running
    \* the dispatch bridge: coroutines handed to bot.loop
    loop_tasks,         \* the jobs whose send was scheduled on the event loop and has not ended
    delivered,          \* delivered[j]: how the send of j ended ("no": not ended)
    \* the configuration: config.json, ConfigManager and the rate limit
    cfgpc,              \* where the start-up is: import of bot.py, on_ready, running
    rate_limit_delay,   \* self.rate_limit_delay, in tenths of a second
    config_file,        \* what config.json holds
    cm_config,          \* ConfigManager.config
    lastRate,           \* the delay of the last set_rate_limit call
    lastGuild,          \* the guild configuration of the last set_guild_config call
    ioFailed,           \* an access to config.json has failed
    rateResult,         \* how the last queuerate ended
    \* the translator: one call of translate_message_with_links
    text,               \* the message, as its parts
    result,             \* what the call returned
    \* on_ready: the managers it has created
    queue_manager,      \* bot.py's global queue_manager: the manager created last
    mgr_queue,          \* mgr_queue[m]: translation_queue of manager m
    mgr_running,        \* mgr_running[m]: worker_running of manager m
    mgr_pc,             \* mgr_pc[m]: where the worker thread of manager m is
    mgr_job,            \* mgr_job[m]: the job that thread holds
    mgr_published,      \* the jobs published by any manager, in dispatch order
    mgr_next,           \* the number of the next message
    \* on_message and the guild configuration a job carries
    message,            \* the message on_message handled last
    dicts,              \* the guild configuration dicts created so far, by object
    guild_ref,          \* the dict ConfigManager.config holds for the guild
    job_cfg,            \* job_cfg[n]: the dict MessageJob n refers to as guild_cfg
    enq_target,         \* enq_target[n]: the target in force when n was enqueued
    sent_to,            \* sent_to[n]: the channel the send of n was scheduled for
    reconfigured        \* reconfigured[n]: set_guild_config ran while n was not yet sent

vars == <<translation_queue, unfinished_tasks, worker_running, worker_thread, pc, job,
          mainpc, queue_size, nextJob, published, nRemoved, nTranslated, fate,
          translated, nCleared, lastOp, paused, clearedSince,
          loop_tasks, delivered,
          cfgpc, rate_limit_delay, config_file, cm_config, lastRate, lastGuild, ioFailed,
          rateResult, text, result,
          queue_manager, mgr_queue, mgr_running, mgr_pc, mgr_job, mgr_published, mgr_next,
          message, dicts, guild_ref, job_cfg, enq_target, sent_to, reconfigured>>

\* the variables of the queue manager and its worker threads
managerVars == <<translation_queue, unfinished_tasks, worker_running, worker_thread, pc, job,
                 mainpc, queue_size, nextJob, published, nRemoved, nTranslated, fate,
                 translated, nCleared, lastOp, paused, clearedSince>>
dispatchVars == <<loop_tasks, delivered>>
configVars == <<cfgpc, rate_limit_delay, config_file, cm_config, lastRate, lastGuild,
                ioFailed, rateResult>>
translatorVars == <<text, result>>
readyVars == <<queue_manager, mgr_queue, mgr_running, mgr_pc, mgr_job, mgr_published,
               mgr_next>>
\* what no step of the queue manager touches
ingestVars == <<message, dicts, guild_ref, job_cfg, enq_target, sent_to, reconfigured>>
otherVars == <<configVars, translatorVars, readyVars, ingestVars>>

queueVars == <<translation_queue, unfinished_tasks>>
workerVars == <<pc, job>>
jobHist == <<published, nRemoved, nTranslated, fate, translated>>

----------------------------------------------------------------------------
\* threading.Thread.is_alive(): started and not yet returned from its target
is_alive(t) == pc[t] # "dead"

\* thread t has executed line 49 and is in the while loop of _process_queue
InLoop(t) == pc[t] \notin {"dead", "started"}

Alive == {t \in Threads : is_alive(t)}

\* the jobs some worker thread has fetched and not finished
InFlight == {job[t] : t \in Alive} \ {NoJob}

\* Queue.task_done()
task_done(n) == IF n > 0 THEN n - 1 ELSE n

\* the thread objects that can be (re)used for a new Thread
FreeThreads == {t \in Threads : ~is_alive(t)}

NewThread == CHOOSE t \in FreeThreads : \A u \in FreeThreads : t <= u

\* a start condition that only looks whether a thread was ever created
NeedsWorkerNever == worker_thread = NoThread

\* The condition of add_message, start and resume:
\*   not self.worker_running or (self.worker_thread and not self.worker_thread.is_alive())
NeedsWorker ==
    \/ ~worker_running
    \/ (worker_thread # NoThread /\ ~is_alive(worker_thread))

\* self.worker_thread = threading.Thread(target=self._process_queue); .start()
\* when NeedsWorker holds, nothing otherwise.  The new thread has not run yet.
StartWorkerIfNeeded ==
    IF NeedsWorker
    THEN /\ FreeThreads # {}
         /\ worker_thread' = NewThread
         /\ pc' = [pc EXCEPT ![NewThread] = "started"]
         /\ job' = [job EXCEPT ![NewThread] = NoJob]
         /\ clearedSince' = [clearedSince EXCEPT ![NewThread] = FALSE]
    ELSE UNCHANGED <<worker_thread, pc, job, clearedSince>>

\* the delays are counted in tenths of a second
MinDelay == 1
MaxDelay == 100
DefaultDelay == 10
NoRate == -1
\* the delays a request or a hand-written config.json can hold
Delays == {0, MinDelay, 20, MaxDelay, 150}

\* the configurations of the one guild: source/target channel pairs
GuildCfgs == {1, 2}
NoCfg == 0

\* what json.load gives for a file without the keys: {}
EmptyConfig == [rate |-> NoRate, guild |-> NoCfg]
MissingFile == [status |-> "missing", rate |-> NoRate, guild |-> NoCfg]
InvalidFile == [status |-> "invalid", rate |-> NoRate, guild |-> NoCfg]

\* no coroutine is scheduled
DispatchInit ==
    /\ loop_tasks = {}
    /\ delivered = [j \in Jobs |-> "no"]

\* the configuration while the queue manager is looked at: no config.json, the defaults
ConfigIdle ==
    /\ cfgpc = "ready"
    /\ rate_limit_delay = DefaultDelay
    /\ config_file = MissingFile
    /\ cm_config = EmptyConfig
    /\ lastRate = NoRate
    /\ lastGuild = NoCfg
    /\ ioFailed = FALSE
    /\ rateResult = "none"

\* no call of the translator
TranslatorIdle ==
    /\ text = <<>>
    /\ result = "unset"

\* the managers on_ready can create, and the messages that arrive
MaxManagers == 2
MaxMessages == 3
Managers == 1..MaxManagers
NoManager == 0

\* on_ready has not fired: queue_manager = None
ReadyInit ==
    /\ queue_manager = NoManager
    /\ mgr_queue = [m \in Managers |-> <<>>]
    /\ mgr_running = [m \in Managers |-> FALSE]
    /\ mgr_pc = [m \in Managers |-> "dead"]
    /\ mgr_job = [m \in Managers |-> NoJob]
    /\ mgr_published = <<>>
    /\ mgr_next = 1

\* the messages on_message is called with, by number
MessageIds == 1..MaxMessages
\* the channels of the guild
Channels == {1, 2}
NoChannel == 0
NoDict == 0
NoMessage == [bot |-> FALSE, guild |-> FALSE, content |-> <<>>, channel |-> NoChannel]

\* no message has arrived, the guild has no configuration
IngestIdle ==
    /\ message = NoMessage
    /\ dicts = <<>>
    /\ guild_ref = NoDict
    /\ job_cfg = [n \in MessageIds |-> NoDict]
    /\ enq_target = [n \in MessageIds |-> NoChannel]
    /\ sent_to = [n \in MessageIds |-> NoChannel]
    /\ reconfigured = [n \in MessageIds |-> FALSE]

\* TranslationQueueManager.__init__
ManagerInit ==
    /\ translation_queue = <<>>
    /\ unfinished_tasks = 0
    /\ worker_running = FALSE
    /\ worker_thread = NoThread
    /\ pc = [t \in Threads |-> "dead"]
    /\ job = [t \in Threads |-> NoJob]
    /\ mainpc = "idle"
    /\ queue_size = 0
    /\ nextJob = 1
    /\ published = <<>>
    /\ nRemoved = [j \in Jobs |-> 0]
    /\ nTranslated = [j \in Jobs |-> 0]
    /\ fate = [j \in Jobs |-> "open"]
    /\ translated = [j \in Jobs |-> "unset"]
    /\ nCleared = 0
    /\ lastOp = "none"
    /\ paused = FALSE
    /\ clearedSince = [t \in Threads |-> FALSE]

Init ==
    /\ ManagerInit
    /\ DispatchInit
    /\ ConfigIdle
    /\ TranslatorIdle
    /\ ReadyInit
    /\ IngestIdle

----------------------------------------------------------------------------
\* The event loop.

\* add_message(message, guild_cfg): put the job, start a worker if needed
AddMessage ==
    /\ mainpc = "idle"
    /\ nextJob <= MaxJobs
    /\ translation_queue' = Append(translation_queue, nextJob)
    /\ unfinished_tasks' = unfinished_tasks + 1
    /\ nextJob' = nextJob + 1
    /\ StartWorkerIfNeeded
    /\ lastOp' = "add_message"
    /\ UNCHANGED <<worker_running, mainpc, queue_size, jobHist, nCleared,
                   paused>>
    /\ UNCHANGED <<dispatchVars, otherVars>>

\* start()
Start ==
    /\ mainpc = "idle"
    /\ StartWorkerIfNeeded
    /\ lastOp' = "start"
    /\ paused' = FALSE
    /\ UNCHANGED <<queueVars, worker_running, mainpc, queue_size, nextJob, jobHist,
                   nCleared>>
    /\ UNCHANGED <<dispatchVars, otherVars>>

\* resume()
Resume ==
    /\ mainpc = "idle"
    /\ StartWorkerIfNeeded
    /\ lastOp' = "resume"
    /\ paused' = FALSE
    /\ UNCHANGED <<queueVars, worker_running, mainpc, queue_size, nextJob, jobHist,
                   nCleared>>
    /\ UNCHANGED <<dispatchVars, otherVars>>

\* pause()
Pause ==
    /\ mainpc = "idle"
    /\ worker_running' = FALSE
    /\ lastOp' = "pause"
    /\ paused' = TRUE
    /\ clearedSince' = [t \in Threads |-> InLoop(t)]
    /\ UNCHANGED <<queueVars, worker_thread, workerVars, mainpc, queue_size, nextJob,
                   jobHist, nCleared>>
    /\ UNCHANGED <<dispatchVars, otherVars>>

\* stop(): clear the flag, then join the worker thread for at most 2 s
Stop ==
    /\ mainpc = "idle"
    /\ worker_running' = FALSE
    /\ mainpc' = IF worker_thread # NoThread THEN "join" ELSE "idle"
    /\ lastOp' = "stop"
    /\ clearedSince' = [t \in Threads |-> InLoop(t)]
    /\ UNCHANGED <<queueVars, worker_thread, workerVars, queue_size, nextJob, jobHist,
                   nCleared, paused>>
    /\ UNCHANGED <<dispatchVars, otherVars>>

\* worker_thread.join(timeout=2.0) returns: the thread ended, or the 2 s passed
StopJoined ==
    /\ mainpc = "join"
    /\ mainpc' = "idle"
    /\ UNCHANGED <<queueVars, worker_running, worker_thread, workerVars, queue_size,
                   nextJob, jobHist, nCleared, lastOp, paused, clearedSince>>
    /\ UNCHANGED <<dispatchVars, otherVars>>

\* queueclear: queue_size = queue_manager.get_queue_size(), then clear_queue()
QueueClear ==
    /\ mainpc = "idle"
    /\ queue_size' = Len(translation_queue)
    /\ nCleared' = 0
    /\ mainpc' = "clear_empty"
    /\ UNCHANGED <<queueVars, worker_running, worker_thread, workerVars, nextJob,
                   jobHist, lastOp, paused, clearedSince>>
    /\ UNCHANGED <<dispatchVars, otherVars>>

\* clear_queue: while not self.translation_queue.empty()
ClearEmpty ==
    /\ mainpc = "clear_empty"
    /\ mainpc' = IF translation_queue = <<>> THEN "clear_done" ELSE "clear_get"
    /\ UNCHANGED <<queueVars, worker_running, worker_thread, workerVars, queue_size,
                   nextJob, jobHist, nCleared, lastOp, paused, clearedSince>>
    /\ UNCHANGED <<dispatchVars, otherVars>>

\* clear_queue: get_nowait() and task_done(), or Empty and break
ClearTakes ==
    /\ mainpc = "clear_get"
    /\ IF translation_queue # <<>>
       THEN /\ translation_queue' = Tail(translation_queue)
            /\ unfinished_tasks' = task_done(unfinished_tasks)
            /\ nRemoved' = [nRemoved EXCEPT ![Head(translation_queue)] = @ + 1]
            /\ fate' = [fate EXCEPT ![Head(translation_queue)] = "cleared"]
            /\ nCleared' = nCleared + 1
            /\ mainpc' = "clear_empty"
       ELSE /\ mainpc' = "clear_done"
            /\ UNCHANGED <<queueVars, nRemoved, fate, nCleared>>
    /\ UNCHANGED <<worker_running, worker_thread, queue_size, nextJob, published,
                   nTranslated, translated, lastOp, paused, clearedSince>>
    /\ UNCHANGED <<dispatchVars, otherVars>>

\* a clear_queue whose get_nowait() also takes away the jobs the workers hold
ClearGetCancelling ==
    /\ ClearTakes
    /\ pc' = [t \in Threads |-> IF pc[t] \in {"translate", "send"} THEN "while" ELSE pc[t]]
    /\ job' = [t \in Threads |-> IF pc[t] \in {"translate", "send"} THEN NoJob ELSE job[t]]

ClearGet ==
    /\ ClearTakes
    /\ UNCHANGED workerVars

\* queueclear: send_message(f"Cleared {queue_size} pending translations")
QueueClearReport ==
    /\ mainpc = "clear_done"
    /\ mainpc' = "idle"
    /\ queue_size' = 0
    /\ nCleared' = 0
    /\ UNCHANGED <<queueVars, worker_running, worker_thread, workerVars, nextJob,
                   jobHist, lastOp, paused, clearedSince>>
    /\ UNCHANGED <<dispatchVars, otherVars>>

----------------------------------------------------------------------------
\* The worker threads: _process_queue.

\* line 49: self.worker_running = True
RunWorker(t) ==
    /\ pc[t] = "started"
    /\ worker_running' = TRUE
    /\ pc' = [pc EXCEPT ![t] = "while"]
    /\ clearedSince' = [clearedSince EXCEPT ![t] = FALSE]
    /\ UNCHANGED <<queueVars, worker_thread, job, mainpc, queue_size, nextJob, jobHist,
                   nCleared, lastOp, paused>>
    /\ UNCHANGED <<dispatchVars, otherVars>>

\* line 53: while self.worker_running; the thread ends when the flag is cleared
WhileCheck(t) ==
    /\ pc[t] = "while"
    /\ pc' = [pc EXCEPT ![t] = IF worker_running THEN "get" ELSE "dead"]
    /\ clearedSince' = [clearedSince EXCEPT ![t] = @ /\ worker_running]
    /\ UNCHANGED <<queueVars, worker_running, worker_thread, job, mainpc, queue_size,
                   nextJob, jobHist, nCleared, lastOp, paused>>
    /\ UNCHANGED <<dispatchVars, otherVars>>

\* a get() that returns the oldest job and leaves it in the queue
GetJobPeek(t) ==
    /\ pc[t] = "get"
    /\ translation_queue # <<>>
    /\ job' = [job EXCEPT ![t] = Head(translation_queue)]
    /\ nRemoved' = [nRemoved EXCEPT ![Head(translation_queue)] = @ + 1]
    /\ pc' = [pc EXCEPT ![t] = "translate"]
    /\ UNCHANGED <<translation_queue, unfinished_tasks, worker_running, worker_thread,
                   mainpc, queue_size, nextJob, published, nTranslated, fate,
                   translated, nCleared, lastOp, paused, clearedSince>>
    /\ UNCHANGED <<dispatchVars, otherVars>>

\* line 57: job = self.translation_queue.get(timeout=1.0) returns the oldest job
GetJob(t) ==
    /\ pc[t] = "get"
    /\ translation_queue # <<>>
    /\ job' = [job EXCEPT ![t] = Head(translation_queue)]
    /\ translation_queue' = Tail(translation_queue)
    /\ nRemoved' = [nRemoved EXCEPT ![Head(translation_queue)] = @ + 1]
    /\ pc' = [pc EXCEPT ![t] = "translate"]
    /\ UNCHANGED <<unfinished_tasks, worker_running, worker_thread, mainpc, queue_size,
                   nextJob, published, nTranslated, fate, translated, nCleared,
                   lastOp, paused, clearedSince>>
    /\ UNCHANGED <<dispatchVars, otherVars>>

\* lines 57, 104-106: the queue stayed empty for 1 s, get raises Empty: continue
GetEmpty(t) ==
    /\ pc[t] = "get"
    /\ translation_queue = <<>>
    /\ pc' = [pc EXCEPT ![t] = "while"]
    /\ UNCHANGED <<queueVars, worker_running, worker_thread, job, mainpc, queue_size,
                   nextJob, jobHist, nCleared, lastOp, paused, clearedSince>>
    /\ UNCHANGED <<dispatchVars, otherVars>>

\* an exception that ends the worker thread
RaisedKills(t) ==
    /\ fate' = [fate EXCEPT ![job[t]] = "failed"]
    /\ pc' = [pc EXCEPT ![t] = "dead"]
    /\ job' = [job EXCEPT ![t] = NoJob]
    /\ UNCHANGED <<translation_queue, unfinished_tasks, published>>

\* lines 107-113: except Exception: task_done(), and the loop goes on
Raised(t) ==
    /\ fate' = [fate EXCEPT ![job[t]] = "failed"]
    /\ unfinished_tasks' = task_done(unfinished_tasks)
    /\ pc' = [pc EXCEPT ![t] = "while"]
    /\ job' = [job EXCEPT ![t] = NoJob]
    /\ UNCHANGED <<translation_queue, published>>

\* a failed translation that drops the job like a skipped one
TranslationFailedDiscards(t) ==
    /\ translated' = [translated EXCEPT ![job[t]] = "original"]
    /\ fate' = [fate EXCEPT ![job[t]] = "skipped"]
    /\ unfinished_tasks' = task_done(unfinished_tasks)
    /\ pc' = [pc EXCEPT ![t] = "while"]
    /\ job' = [job EXCEPT ![t] = NoJob]
    /\ UNCHANGED <<translation_queue, published>>

\* translator.py lines 151-153, 165-167, 187-196: translate() could not translate
\* (no API key, no client, an empty response, or the call to the translation
\* service raised) and returns the text it was given; the worker goes on to send it
TranslationFailed(t) ==
    /\ translated' = [translated EXCEPT ![job[t]] = "original"]
    /\ pc' = [pc EXCEPT ![t] = "send"]
    /\ UNCHANGED <<queueVars, job, published, fate>>

\* lines 61-70: translate_message_with_links(job.message.content) returns None
\* (task_done, continue), returns the translation, returns the text it was given
\* (TranslationFailed), or lines 61-64 raise
Translate(t) ==
    /\ pc[t] = "translate"
    /\ nTranslated' = [nTranslated EXCEPT ![job[t]] = @ + 1]
    /\ \/ /\ translated' = [translated EXCEPT ![job[t]] = "None"]
          /\ fate' = [fate EXCEPT ![job[t]] = "skipped"]
          /\ unfinished_tasks' = task_done(unfinished_tasks)
          /\ pc' = [pc EXCEPT ![t] = "while"]
          /\ job' = [job EXCEPT ![t] = NoJob]
          /\ UNCHANGED <<translation_queue, published>>
       \/ /\ translated' = [translated EXCEPT ![job[t]] = "translation"]
          /\ pc' = [pc EXCEPT ![t] = "send"]
          /\ UNCHANGED <<queueVars, job, published, fate>>
       \/ TranslationFailed(t)
       \/ /\ Raised(t)
          /\ UNCHANGED translated
    /\ UNCHANGED <<worker_running, worker_thread, mainpc, queue_size, nextJob, nRemoved,
                   nCleared, lastOp, paused, clearedSince>>
    /\ UNCHANGED <<dispatchVars, otherVars>>

\* lines 72-97: build the embed, look the target channel up, hand the send to the
\* event loop with run_coroutine_threadsafe (or report the missing channel), task_done
Send(t) ==
    /\ pc[t] = "send"
    /\ \/ /\ published' = Append(published, job[t])
          /\ loop_tasks' = loop_tasks \cup {job[t]}
          /\ fate' = [fate EXCEPT ![job[t]] = "published"]
          /\ unfinished_tasks' = task_done(unfinished_tasks)
          /\ pc' = [pc EXCEPT ![t] = "sleep"]
          /\ UNCHANGED <<translation_queue, job>>
       \/ /\ fate' = [fate EXCEPT ![job[t]] = "nochannel"]
          /\ unfinished_tasks' = task_done(unfinished_tasks)
          /\ pc' = [pc EXCEPT ![t] = "sleep"]
          /\ UNCHANGED <<translation_queue, job, published, loop_tasks>>
       \/ /\ Raised(t)
          /\ UNCHANGED loop_tasks
    /\ UNCHANGED <<worker_running, worker_thread, mainpc, queue_size, nextJob, nRemoved,
                   nTranslated, translated, nCleared, lastOp, paused, clearedSince>>
    /\ UNCHANGED <<delivered, otherVars>>

\* a worker that waits for the result of the send before it goes on
SleepAwaitsSend(t) ==
    /\ pc[t] = "sleep"
    /\ job[t] \notin loop_tasks
    /\ pc' = [pc EXCEPT ![t] = "while"]
    /\ job' = [job EXCEPT ![t] = NoJob]
    /\ UNCHANGED <<queueVars, worker_running, worker_thread, mainpc, queue_size, nextJob,
                   jobHist, nCleared, lastOp, paused, clearedSince>>
    /\ UNCHANGED <<dispatchVars, otherVars>>

\* line 102: time.sleep(self.rate_limit_delay) has returned
Sleep(t) ==
    /\ pc[t] = "sleep"
    /\ pc' = [pc EXCEPT ![t] = "while"]
    /\ job' = [job EXCEPT ![t] = NoJob]
    /\ UNCHANGED <<queueVars, worker_running, worker_thread, mainpc, queue_size, nextJob,
                   jobHist, nCleared, lastOp, paused, clearedSince>>
    /\ UNCHANGED <<dispatchVars, otherVars>>

Worker(t) ==
    \/ RunWorker(t)
    \/ WhileCheck(t)
    \/ GetJob(t)
    \/ GetEmpty(t)
    \/ Translate(t)
    \/ Send(t)
    \/ Sleep(t)

Next ==
    \/ AddMessage
    \/ Start
    \/ Resume
    \/ Pause
    \/ Stop
    \/ StopJoined
    \/ QueueClear
    \/ ClearEmpty
    \/ ClearGet
    \/ QueueClearReport
    \/ \E t \in Threads : Worker(t)

Spec == Init /\ [][Next]_vars

\* Every started thread is scheduled, and a translation, a send and a sleep return.
FairSpec == Spec /\ \A t \in Threads : WF_vars(Worker(t))

----------------------------------------------------------------------------
\* Properties.

Range(q) == {q[i] : i \in 1..Len(q)}

\* how often job j was published
Publishes(j) == Cardinality({i \in 1..Len(published) : published[i] = j})

\* the jobs add_message has enqueued, in that order
Enqueued == [i \in 1..(nextJob - 1) |-> i]

NotRemoved(j) == nRemoved[j] = 0

\* thread t fetches a job in this step
Fetches(t) == pc[t] = "get" /\ pc'[t] = "translate"

\* pause() or stop() was the last lifecycle call: nothing restarted the worker since
Halted == lastOp \in {"pause", "stop"}

Finished == {"skipped", "failed", "nochannel", "published"}

\* C1: the publishes are dispatched in the order in which the jobs were enqueued.
FIFOPublishOrder ==
    \A i, k \in 1..Len(published) : i < k => published[i] < published[k]

\* C2: at most one thread is alive executing _process_queue.
AtMostOneWorker == Cardinality(Alive) <= 1

\* C3: every job is removed from the queue at most once, by a worker or by
\* clear_queue, translated at most once and published at most once, a job that
\* clear_queue removed is never translated, and the queue holds exactly the
\* enqueued jobs that were not removed, in enqueue order.
NoJobLostOrDuplicated ==
    /\ \A j \in Jobs :
          /\ nRemoved[j] <= 1
          /\ nTranslated[j] <= nRemoved[j]
          /\ Publishes(j) <= nTranslated[j]
          /\ fate[j] = "cleared" => nTranslated[j] = 0
          /\ j >= nextJob => nRemoved[j] = 0
    /\ translation_queue = SelectSeq(Enqueued, NotRemoved)

\* C3 witness: all jobs were enqueued, a worker took one and published it while
\* clear_queue took another, and the queue is empty.
JobsRemovedBothWays ==
    /\ nextJob = MaxJobs + 1
    /\ \E j \in Jobs : fate[j] = "cleared"
    /\ \E t \in Threads : pc[t] = "sleep" /\ fate[job[t]] = "published"
    /\ mainpc = "clear_done"
    /\ translation_queue = <<>>

\* C4: while paused (pause() called, no resume() or start() since) no job is fetched.
PauseHoldsUntilResume ==
    [][(paused /\ paused') => \A t \in Threads : ~Fetches(t)]_vars

\* C5: a second pause() right after pause(), a second resume() right after
\* resume(), and start() while the worker started last is alive and was not paused,
\* change nothing in the manager and create no thread.
IdempotentLifecycle ==
    [][(\/ lastOp = "pause" /\ Pause /\ ~worker_running
        \/ lastOp = "resume" /\ Resume
        \/ /\ lastOp \in {"start", "resume", "add_message"}
           /\ worker_thread # NoThread
           /\ is_alive(worker_thread)
           /\ Start)
       => UNCHANGED <<worker_running, worker_thread, pc, job, translation_queue>>]_vars

\* C6: with a pending job and no pause()/stop() since the last add_message,
\* start or resume, a worker thread is alive; and every such pending job is
\* eventually translated, unless it is cleared or the queue is paused or stopped.
NoStarvation ==
    /\ []((translation_queue # <<>> /\ ~Halted) => Alive # {})
    /\ \A j \in Jobs :
          (j \in Range(translation_queue) /\ ~Halted)
             ~> (nTranslated[j] > 0 \/ fate[j] = "cleared" \/ Halted)

\* C6 witness: a job added after a pause and the end of the paused worker has
\* been translated by the worker add_message started.
JobProcessedAfterRestart ==
    /\ lastOp = "add_message"
    /\ paused
    /\ nTranslated[MaxJobs] > 0
    /\ Cardinality(Alive) = 1

\* C7: a step in which the processing of a job raises leaves the thread alive at
\* the head of the loop and worker_running as it was; a thread ends only at the
\* loop condition, with worker_running cleared by a pause() or stop() that ran
\* after the thread set the flag.
NoCrashOnError ==
    [][\A t \in Threads :
          /\ (job[t] # NoJob /\ fate[job[t]] # "failed" /\ fate'[job[t]] = "failed")
                => (pc'[t] = "while" /\ worker_running' = worker_running)
          /\ (pc[t] # "dead" /\ pc'[t] = "dead")
                => (pc[t] = "while" /\ ~worker_running /\ clearedSince[t])]_vars

\* C7 witness: without any pause or stop, the first job failed and the worker went
\* on to publish the second.
NextJobAfterError ==
    /\ lastOp = "add_message"
    /\ ~paused
    /\ fate[1] = "failed"
    /\ fate[2] = "published"

\* C8: when clear_queue has returned, the count queueclear reports is the number
\* of jobs clear_queue removed, and the queue is empty.
ClearCountAndEmptiness ==
    mainpc = "clear_done" => (queue_size = nCleared /\ translation_queue = <<>>)

RateLimitApplied ==
    [][\A u \in Threads :
          Fetches(u) => ~\E t \in Threads : pc[t] = "sleep" /\ fate[job[t]] = "published"]_vars

\* the translation of j yielded text
YieldedText(j) == translated[j] \in {"translation", "original"}

\* the publish of j was dispatched
Dispatched(j) == YieldedText(j) /\ fate[j] = "published"

\* C11: a job whose translation yields None is dropped without publish and without
\* sleep and the loop goes on; the published jobs are exactly the enqueued jobs that
\* yielded text and were dispatched, in enqueue order.
SkippedJobsKeepOrder ==
    /\ [][\A t \in Threads :
             (pc[t] = "translate" /\ translated'[job[t]] = "None")
                => (pc'[t] = "while" /\ published' = published)]_vars
    /\ [](published = SelectSeq(Enqueued, Dispatched))

\* C14 as claimed: a job whose translation failed is never published.
FailedTranslationDiscarded ==
    \A j \in Jobs : translated[j] = "original" => Publishes(j) = 0

\* C14: a job whose translation failed is not dropped: the worker goes on to send
\* the text translate() returned, the original text, so the job is waiting at the
\* send step, was published, found no target channel or raised there; only a job
\* whose translation returned None is skipped, and it is never published.
FailedTranslationPublishesOriginal ==
    \A j \in Jobs :
       /\ translated[j] = "original" =>
             /\ fate[j] \in {"open", "published", "nochannel", "failed"}
             /\ fate[j] = "open" => \E t \in Threads : pc[t] = "send" /\ job[t] = j
       /\ fate[j] = "published" => YieldedText(j)
       /\ fate[j] = "skipped" <=> translated[j] = "None"
       /\ translated[j] = "None" => Publishes(j) = 0

\* C14 witness: the original text of a job whose translation failed was published.
OriginalTextPublished ==
    \E j \in Jobs : translated[j] = "original" /\ fate[j] = "published" /\ Publishes(j) = 1

\* C15: worker_running implies that worker_thread is a live thread in _process_queue.
WorkerStateInvariant ==
    worker_running => (worker_thread # NoThread /\ is_alive(worker_thread))

\* C16: once pause() or stop() has cleared the flag and no add_message, start or
\* resume follows, worker_running stays False.
CooperativeStop ==
    [][(Halted /\ Halted') => ~worker_running']_vars

-----------------------------------------------------------------------------
\* The dispatch bridge: the coroutine target_channel.send(embed=embed) that line 85
\* handed to bot.loop runs when the event loop is free, and ends with the message
\* sent or with an exception that stays in its future.
SendDone(j) ==
    /\ j \in loop_tasks
    /\ mainpc = "idle"
    /\ loop_tasks' = loop_tasks \ {j}
    /\ \E outcome \in {"sent", "failed"} :
          delivered' = [delivered EXCEPT ![j] = outcome]
    /\ UNCHANGED <<managerVars, otherVars>>

DispatchNext ==
    \/ Next
    \/ \E j \in Jobs : SendDone(j)

DispatchSpec == Init /\ [][DispatchNext]_vars

-----------------------------------------------------------------------------
\* The configuration: config.json is read by ConfigManager when bot.py is imported
\* and by TranslationQueueManager when on_ready creates it; queuerate and the setup
\* command write it.  The worker threads play no part here and stay unborn.

\* what a start-up can find in config.json
FileStates ==
    {MissingFile, InvalidFile}
        \cup {[status |-> "ok", rate |-> r, guild |-> g] :
                 r \in {NoRate} \cup Delays, g \in {NoCfg} \cup GuildCfgs}

\* json.load with the two handlers of the code: FileNotFoundError and JSONDecodeError
\* give {}
json_load(f) ==
    IF f.status = "ok" THEN [rate |-> f.rate, guild |-> f.guild] ELSE EmptyConfig

\* json.dump of a dict into the file
json_dump(c) == [status |-> "ok", rate |-> c.rate, guild |-> c.guild]

\* a write that fails leaves the file as it was or, opened and truncated, without JSON
FailedWrite(f) == {f, InvalidFile}

ConfigInit ==
    /\ ManagerInit
    /\ DispatchInit
    /\ IngestIdle
    /\ TranslatorIdle
    /\ ReadyInit
    /\ cfgpc = "import"
    /\ config_file \in FileStates
    /\ rate_limit_delay = NoRate
    /\ cm_config = EmptyConfig
    /\ lastRate = NoRate
    /\ lastGuild = NoCfg
    /\ ioFailed = FALSE
    /\ rateResult = "none"

\* bot.py line 24: ConfigManager(CONFIG_FILE) loads the file once; an OSError other
\* than FileNotFoundError leaves the import
ConfigManagerInit ==
    /\ cfgpc = "import"
    /\ \/ /\ cm_config' = json_load(config_file)
          /\ cfgpc' = "loaded"
          /\ UNCHANGED ioFailed
       \/ /\ cfgpc' = "import_failed"
          /\ ioFailed' = TRUE
          /\ UNCHANGED cm_config
    /\ UNCHANGED <<rate_limit_delay, config_file, lastRate, lastGuild, rateResult>>
    /\ UNCHANGED <<managerVars, dispatchVars, translatorVars, readyVars, ingestVars>>

\* on_ready line 194: TranslationQueueManager.__init__ sets rate_limit_delay from
\* _load_config(); an OSError other than FileNotFoundError leaves __init__
LoadRateLimit ==
    /\ cfgpc = "loaded"
    /\ \/ /\ rate_limit_delay' = IF json_load(config_file).rate = NoRate
                                 THEN DefaultDelay
                                 ELSE json_load(config_file).rate
          /\ cfgpc' = "ready"
          /\ UNCHANGED ioFailed
       \/ /\ cfgpc' = "init_failed"
          /\ ioFailed' = TRUE
          /\ UNCHANGED rate_limit_delay
    /\ UNCHANGED <<config_file, cm_config, lastRate, lastGuild, rateResult>>
    /\ UNCHANGED <<managerVars, dispatchVars, translatorVars, readyVars, ingestVars>>

\* _save_config: read the file, set queueSettings, write it; the read catches
\* FileNotFoundError and JSONDecodeError only, the write catches every Exception
save_queue_settings ==
    \/ /\ config_file' = json_dump([json_load(config_file) EXCEPT !.rate = rate_limit_delay'])
       /\ rateResult' = "set"
       /\ UNCHANGED ioFailed
    \/ /\ config_file' \in FailedWrite(config_file)
       /\ rateResult' = "set"
       /\ ioFailed' = TRUE
    \/ /\ rateResult' = "raised"
       /\ ioFailed' = TRUE
       /\ UNCHANGED config_file

\* queuerate: the bound check of bot.py, then set_rate_limit
QueueRate(delay) ==
    /\ cfgpc = "ready"
    /\ IF delay < MinDelay \/ delay > MaxDelay
       THEN /\ rateResult' = "rejected"
            /\ UNCHANGED <<rate_limit_delay, config_file, lastRate, ioFailed>>
       ELSE /\ rate_limit_delay' = delay
            /\ lastRate' = delay
            /\ save_queue_settings
    /\ UNCHANGED <<cfgpc, cm_config, lastGuild>>
    /\ UNCHANGED <<managerVars, dispatchVars, translatorVars, readyVars, ingestVars>>

\* the setup command: ConfigManager.set_guild_config, then save_config writes the
\* dict ConfigManager holds; nothing catches a failing write
SetGuildConfig(g) ==
    /\ cfgpc = "ready"
    /\ cm_config' = [cm_config EXCEPT !.guild = g]
    /\ lastGuild' = g
    /\ \/ /\ config_file' = json_dump(cm_config')
          /\ UNCHANGED ioFailed
       \/ /\ config_file' \in FailedWrite(config_file)
          /\ ioFailed' = TRUE
    /\ UNCHANGED <<cfgpc, rate_limit_delay, lastRate, rateResult>>
    /\ UNCHANGED <<managerVars, dispatchVars, translatorVars, readyVars, ingestVars>>

ConfigNext ==
    \/ ConfigManagerInit
    \/ LoadRateLimit
    \/ \E delay \in Delays : QueueRate(delay)
    \/ \E g \in GuildCfgs : SetGuildConfig(g)

ConfigSpec == ConfigInit /\ [][ConfigNext]_vars

\* C12: the delay the manager holds is within [0.1 s, 10 s], whether loaded at
\* start-up or set by queuerate, and a rejected request leaves it unchanged.
RateLimitBound ==
    /\ [](cfgpc = "ready" => (MinDelay <= rate_limit_delay /\ rate_limit_delay <= MaxDelay))
    /\ [][rateResult' = "rejected" => rate_limit_delay' = rate_limit_delay]_vars

\* C13: while no access to the file has failed, the file holds the delay of the last
\* set_rate_limit and the guild entry of the last set_guild_config.
ConfigWritesIndependent ==
    (cfgpc = "ready" /\ ~ioFailed)
        => /\ lastRate # NoRate => (config_file.status = "ok" /\ config_file.rate = lastRate)
           /\ lastGuild # NoCfg => (config_file.status = "ok" /\ config_file.guild = lastGuild)

\* C19: the manager is constructed whatever the file is, with the default delay
\* when the file gives none; set_rate_limit never raises and the manager holds the
\* delay set last.
ConfigFailureNeverFatal ==
    /\ [](cfgpc # "init_failed")
    /\ [](rateResult # "raised")
    /\ [](lastRate # NoRate => rate_limit_delay = lastRate)
    /\ [][(cfgpc = "loaded" /\ cfgpc' = "ready" /\ config_file.status # "ok")
             => rate_limit_delay' = DefaultDelay]_vars

-----------------------------------------------------------------------------
\* The translator.  A message is a sequence of tokens: a link, an English word, a
\* word of another language, white space.  A link ends at white space or at the end
\* of the message, as the URL pattern has it.
MaxTokens == 4
Tokens == {"link", "en", "foreign", "ws"}

Messages ==
    {s \in UNION {[1..n -> Tokens] : n \in 0..MaxTokens} :
        \A i \in 1..Len(s) : (s[i] = "link" /\ i < Len(s)) => s[i + 1] = "ws"}

\* translate and translate_message_with_links return None
None == <<"None">>
\* no call has returned
Unset == <<"unset">>

\* str.strip()
RECURSIVE lstrip(_)
lstrip(s) == IF s # <<>> /\ Head(s) = "ws" THEN lstrip(Tail(s)) ELSE s

RECURSIVE rstrip(_)
rstrip(s) == IF s # <<>> /\ s[Len(s)] = "ws" THEN rstrip(SubSeq(s, 1, Len(s) - 1)) ELSE s

strip(s) == rstrip(lstrip(s))

\* is_link_only: the stripped text is one URL from its start to its end
is_link_only(s) == strip(s) = <<"link">>

\* translate: None for empty text, for a link and for English text; else the
\* translation, or the original text when the call of the API fails
translate(s, fails) ==
    IF strip(s) = <<>> THEN None
    ELSE IF is_link_only(s) THEN None
    ELSE IF \A i \in 1..Len(s) : s[i] # "foreign" THEN None
    ELSE IF fails THEN <<"original">>
    ELSE <<"translation">>

\* the loop over url_pattern.finditer(text): the text before each link, the link,
\* the text after the last link; cur is the text since the last link
RECURSIVE split_parts(_, _)
split_parts(s, cur) ==
    LET before == IF cur = <<>> THEN <<>> ELSE <<[type |-> "text", content |-> cur]>>
    IN  IF s = <<>> THEN before
        ELSE IF Head(s) = "link"
             THEN before \o <<[type |-> "link", content |-> <<"link">>]>>
                         \o split_parts(Tail(s), <<>>)
             ELSE split_parts(Tail(s), Append(cur, Head(s)))

\* the loop over parts: a text part gives its translation unless it is blank or
\* translate returns None, a link is kept
RECURSIVE result_parts(_, _)
result_parts(parts, fails) ==
    IF parts = <<>> THEN <<>>
    ELSE LET p == Head(parts)
             rest == result_parts(Tail(parts), fails)
         IN  IF p.type = "text"
             THEN IF strip(p.content) # <<>> /\ translate(p.content, fails) # None
                  THEN translate(p.content, fails) \o rest
                  ELSE rest
             ELSE p.content \o rest

translate_message_with_links(s, fails) ==
    IF is_link_only(s) THEN None
    ELSE LET parts == split_parts(s, <<>>)
         IN  IF parts = <<>> THEN translate(s, fails)
             ELSE IF result_parts(parts, fails) = <<>> THEN None
             ELSE result_parts(parts, fails)

TranslatorInit ==
    /\ ManagerInit
    /\ DispatchInit
    /\ IngestIdle
    /\ ConfigIdle
    /\ ReadyInit
    /\ text \in Messages
    /\ result = Unset

\* one call of translate_message_with_links, the API working or failing
TranslateMessage ==
    /\ result = Unset
    /\ \E fails \in BOOLEAN : result' = translate_message_with_links(text, fails)
    /\ UNCHANGED text
    /\ UNCHANGED <<managerVars, dispatchVars, configVars, readyVars, ingestVars>>

TranslatorNext == TranslateMessage

TranslatorSpec == TranslatorInit /\ [][TranslatorNext]_vars

\* the text parts of a message
TextParts(s) ==
    {split_parts(s, <<>>)[i].content : i \in {k \in 1..Len(split_parts(s, <<>>)) :
                                                split_parts(s, <<>>)[k].type = "text"}}

\* C20: a message each of whose text parts needs no translation gives None, with
\* links or without, and so does a message that is only a link.
EnglishWithLinksSkipped ==
    (result # Unset /\ \A p \in TextParts(text) : translate(p, FALSE) = None)
        => result = None

-----------------------------------------------------------------------------
\* on_ready.  Each time it fires it creates a TranslationQueueManager, binds the
\* global queue_manager to it and calls start(); the manager bound before keeps its
\* queue and its worker thread.  Here a message arrives only while the worker of the
\* current manager is in its loop, so add_message starts no thread, and a worker's
\* translation, send and sleep are one step.

\* on_ready lines 193-195: queue_manager = TranslationQueueManager(...); start()
OnReady ==
    /\ queue_manager < MaxManagers
    /\ queue_manager' = queue_manager + 1
    /\ mgr_pc' = [mgr_pc EXCEPT ![queue_manager + 1] = "started"]
    /\ UNCHANGED <<mgr_queue, mgr_running, mgr_job, mgr_published, mgr_next>>
    /\ UNCHANGED <<managerVars, dispatchVars, configVars, translatorVars, ingestVars>>

\* on_message: queue_manager.add_message(message, guild_cfg) on the current manager
OnMessage ==
    /\ queue_manager # NoManager
    /\ mgr_running[queue_manager]
    /\ mgr_pc[queue_manager] # "dead"
    /\ mgr_next <= MaxMessages
    /\ mgr_queue' = [mgr_queue EXCEPT ![queue_manager] = Append(@, mgr_next)]
    /\ mgr_next' = mgr_next + 1
    /\ UNCHANGED <<queue_manager, mgr_running, mgr_pc, mgr_job, mgr_published>>
    /\ UNCHANGED <<managerVars, dispatchVars, configVars, translatorVars, ingestVars>>

\* _process_queue line 49 of the worker of manager m
MgrRunWorker(m) ==
    /\ mgr_pc[m] = "started"
    /\ mgr_running' = [mgr_running EXCEPT ![m] = TRUE]
    /\ mgr_pc' = [mgr_pc EXCEPT ![m] = "get"]
    /\ UNCHANGED <<queue_manager, mgr_queue, mgr_job, mgr_published, mgr_next>>
    /\ UNCHANGED <<managerVars, dispatchVars, configVars, translatorVars, ingestVars>>

\* lines 53-57: the worker of manager m takes the head of that manager's queue
MgrGetJob(m) ==
    /\ mgr_pc[m] = "get"
    /\ mgr_running[m]
    /\ mgr_queue[m] # <<>>
    /\ mgr_job' = [mgr_job EXCEPT ![m] = Head(mgr_queue[m])]
    /\ mgr_queue' = [mgr_queue EXCEPT ![m] = Tail(@)]
    /\ mgr_pc' = [mgr_pc EXCEPT ![m] = "send"]
    /\ UNCHANGED <<queue_manager, mgr_running, mgr_published, mgr_next>>
    /\ UNCHANGED <<managerVars, dispatchVars, configVars, translatorVars, ingestVars>>

\* lines 64-102: the job is translated and its send is scheduled, or it is skipped
MgrProcess(m) ==
    /\ mgr_pc[m] = "send"
    /\ \/ mgr_published' = Append(mgr_published, mgr_job[m])
       \/ UNCHANGED mgr_published
    /\ mgr_job' = [mgr_job EXCEPT ![m] = NoJob]
    /\ mgr_pc' = [mgr_pc EXCEPT ![m] = "get"]
    /\ UNCHANGED <<queue_manager, mgr_queue, mgr_running, mgr_next>>
    /\ UNCHANGED <<managerVars, dispatchVars, configVars, translatorVars, ingestVars>>

ReadyNext ==
    \/ OnReady
    \/ OnMessage
    \/ \E m \in Managers : MgrRunWorker(m) \/ MgrGetJob(m) \/ MgrProcess(m)

ReadySpec == Init /\ [][ReadyNext]_vars

\* C17: however often on_ready fires, at most one worker thread lives in the
\* process, and the jobs are published in the order of their arrival, those enqueued
\* before an on_ready before those enqueued after it.
SingleWorkerAcrossReady ==
    /\ Cardinality({m \in Managers : mgr_pc[m] # "dead"}) <= 1
    /\ \A i, k \in 1..Len(mgr_published) :
          i < k => mgr_published[i] < mgr_published[k]

-----------------------------------------------------------------------------
\* The accounting of the queue.  The delay is the one __init__ loaded from
\* config.json, which it takes as it is; time.sleep raises ValueError for a
\* negative delay, inside the try block and after line 97 has marked the job done.

\* a negative rateLimitDelay in a hand-written config.json, in tenths of a second
NegativeDelay == -5

AccountingInit ==
    /\ ManagerInit
    /\ DispatchInit
    /\ IngestIdle
    /\ TranslatorIdle
    /\ ReadyInit
    /\ cfgpc = "ready"
    /\ config_file \in {MissingFile, [status |-> "ok", rate |-> NegativeDelay, guild |-> NoCfg]}
    /\ rate_limit_delay = IF json_load(config_file).rate = NoRate
                          THEN DefaultDelay
                          ELSE json_load(config_file).rate
    /\ cm_config = json_load(config_file)
    /\ lastRate = NoRate
    /\ lastGuild = NoCfg
    /\ ioFailed = FALSE
    /\ rateResult = "none"

\* line 102 raises: lines 107-113 print the error and call task_done() again
SleepRaised(t) ==
    /\ pc[t] = "sleep"
    /\ rate_limit_delay < 0
    /\ unfinished_tasks' = task_done(unfinished_tasks)
    /\ pc' = [pc EXCEPT ![t] = "while"]
    /\ job' = [job EXCEPT ![t] = NoJob]
    /\ UNCHANGED <<translation_queue, worker_running, worker_thread, mainpc, queue_size,
                   nextJob, jobHist, nCleared, lastOp, paused, clearedSince>>
    /\ UNCHANGED <<dispatchVars, otherVars>>

\* line 102 returns
SleepReturned(t) ==
    /\ rate_limit_delay >= 0
    /\ Sleep(t)

AccountingWorker(t) ==
    \/ RunWorker(t)
    \/ WhileCheck(t)
    \/ GetJob(t)
    \/ GetEmpty(t)
    \/ Translate(t)
    \/ Send(t)
    \/ SleepReturned(t)
    \/ SleepRaised(t)

AccountingNext ==
    \/ AddMessage
    \/ Start
    \/ Resume
    \/ Pause
    \/ Stop
    \/ StopJoined
    \/ QueueClear
    \/ ClearEmpty
    \/ ClearGet
    \/ QueueClearReport
    \/ \E t \in Threads : AccountingWorker(t)

AccountingSpec == AccountingInit /\ [][AccountingNext]_vars

\* the threads that hold a job they have not marked done
Undone == {t \in Threads : pc[t] \in {"translate", "send"}}

\* C23: the unfinished-task count is the number of pending jobs plus the number of
\* jobs in flight; a removal without that job's task_done does not happen, and a get
\* that found the queue empty calls no task_done.
TaskDoneAccounting ==
    /\ [](unfinished_tasks = Len(translation_queue) + Cardinality(Undone))
    /\ [][\A t \in Threads :
             (pc[t] = "get" /\ pc'[t] = "while") => UNCHANGED unfinished_tasks]_vars

-----------------------------------------------------------------------------
\* on_message, settranslate and the guild configuration a job carries.  The guild
\* configurations are dict objects: ConfigManager.config holds a reference to one
\* for the guild, and so does every MessageJob.  One worker thread per manager
\* stands for the threads that run _process_queue on its queue; its translation,
\* send and sleep are one step.
MaxContent == 2
MaxDicts == 2
MaxIngest == 2

\* message.content: "/", a white space character, another character
Chars == {"/", "ws", "a"}
Contents == UNION {[1..n -> Chars] : n \in 0..MaxContent}

MessagesIn == [bot : BOOLEAN, guild : BOOLEAN, content : Contents, channel : Channels]

\* the entries config.json can hold for the guild at start-up
GuildDicts == [source : Channels, target : Channels, enabled : BOOLEAN]

IngestInit ==
    /\ ManagerInit
    /\ DispatchInit
    /\ ConfigIdle
    /\ TranslatorIdle
    /\ ReadyInit
    /\ message = NoMessage
    /\ \/ dicts = <<>> /\ guild_ref = NoDict
       \/ \E d \in GuildDicts : dicts = <<d>> /\ guild_ref = 1
    /\ job_cfg = [n \in MessageIds |-> NoDict]
    /\ enq_target = [n \in MessageIds |-> NoChannel]
    /\ sent_to = [n \in MessageIds |-> NoChannel]
    /\ reconfigured = [n \in MessageIds |-> FALSE]

\* the returns of on_message, lines 147-167, in their order
passes_filter(msg) ==
    IF msg.bot \/ ~msg.guild THEN FALSE
    ELSE IF strip(msg.content) = <<>> THEN FALSE
    ELSE IF Head(msg.content) = "/" THEN FALSE
    ELSE IF guild_ref = NoDict \/ ~dicts[guild_ref].enabled THEN FALSE
    ELSE IF msg.channel # dicts[guild_ref].source THEN FALSE
    ELSE TRUE

\* on_message: a message that passes the returns goes to
\* queue_manager.add_message(message, guild_cfg), which raises AttributeError
\* while queue_manager is None
on_message(msg) ==
    /\ mgr_next <= MaxIngest
    /\ message' = msg
    /\ mgr_next' = mgr_next + 1
    /\ IF passes_filter(msg) /\ queue_manager # NoManager
       THEN /\ mgr_queue' = [mgr_queue EXCEPT ![queue_manager] = Append(@, mgr_next)]
            /\ job_cfg' = [job_cfg EXCEPT ![mgr_next] = guild_ref]
            /\ enq_target' = [enq_target EXCEPT ![mgr_next] = dicts[guild_ref].target]
       ELSE UNCHANGED <<mgr_queue, job_cfg, enq_target>>
    /\ UNCHANGED <<queue_manager, mgr_running, mgr_pc, mgr_job, mgr_published>>
    /\ UNCHANGED <<dicts, guild_ref, sent_to, reconfigured>>
    /\ UNCHANGED <<managerVars, dispatchVars, configVars, translatorVars>>

\* the jobs that are pending or in flight
Waiting ==
    {n \in MessageIds : \E m \in Managers :
        mgr_job[m] = n \/ \E i \in 1..Len(mgr_queue[m]) : mgr_queue[m][i] = n}

\* a set_guild_config that updates the dict of the guild where it is
SetTranslateInPlace(source, target) ==
    /\ Len(dicts) < MaxDicts
    /\ IF guild_ref = NoDict
       THEN /\ dicts' = Append(dicts, [source |-> source, target |-> target, enabled |-> TRUE])
            /\ guild_ref' = Len(dicts) + 1
       ELSE /\ dicts' = [dicts EXCEPT ![guild_ref] =
                            [source |-> source, target |-> target, enabled |-> TRUE]]
            /\ UNCHANGED guild_ref
    /\ reconfigured' = [n \in MessageIds |-> reconfigured[n] \/ n \in Waiting]
    /\ UNCHANGED <<message, job_cfg, enq_target, sent_to>>
    /\ UNCHANGED <<managerVars, dispatchVars, configVars, translatorVars, readyVars>>

\* settranslate: set_guild_config binds the guild to a new dict
SetTranslate(source, target) ==
    /\ Len(dicts) < MaxDicts
    /\ dicts' = Append(dicts, [source |-> source, target |-> target, enabled |-> TRUE])
    /\ guild_ref' = Len(dicts) + 1
    /\ reconfigured' = [n \in MessageIds |-> reconfigured[n] \/ n \in Waiting]
    /\ UNCHANGED <<message, job_cfg, enq_target, sent_to>>
    /\ UNCHANGED <<managerVars, dispatchVars, configVars, translatorVars, readyVars>>

\* lines 64-102 of the worker of manager m: the send is scheduled for the channel
\* job.guild_cfg["target"], or the job is skipped, its channel is missing, or an
\* exception is caught
IngestProcess(m) ==
    /\ mgr_pc[m] = "send"
    /\ \/ /\ sent_to' = [sent_to EXCEPT ![mgr_job[m]] = dicts[job_cfg[mgr_job[m]]].target]
          /\ mgr_published' = Append(mgr_published, mgr_job[m])
       \/ UNCHANGED <<sent_to, mgr_published>>
    /\ mgr_job' = [mgr_job EXCEPT ![m] = NoJob]
    /\ mgr_pc' = [mgr_pc EXCEPT ![m] = "get"]
    /\ UNCHANGED <<queue_manager, mgr_queue, mgr_running, mgr_next>>
    /\ UNCHANGED <<message, dicts, guild_ref, job_cfg, enq_target, reconfigured>>
    /\ UNCHANGED <<managerVars, dispatchVars, configVars, translatorVars>>

IngestNext ==
    \/ OnReady
    \/ \E msg \in MessagesIn : on_message(msg)
    \/ \E source, target \in Channels : SetTranslate(source, target)
    \/ \E m \in Managers : MgrRunWorker(m) \/ MgrGetJob(m) \/ IngestProcess(m)

IngestSpec == IngestInit /\ [][IngestNext]_vars

\* the conditions of eligibility, for the configuration the guild has
Eligible(msg) ==
    /\ ~msg.bot
    /\ msg.guild
    /\ \E i \in 1..Len(msg.content) : msg.content[i] # "ws"
    /\ msg.content[1] # "/"
    /\ guild_ref # NoDict
    /\ dicts[guild_ref].enabled
    /\ msg.channel = dicts[guild_ref].source

\* C21: on_message appends an eligible message once to the queue, and for every
\* other message it leaves the queues as they are.
EligibilityFilter ==
    [][(mgr_next' = mgr_next + 1)
          => IF Eligible(message')
             THEN \E m \in Managers :
                     mgr_queue' = [mgr_queue EXCEPT ![m] = Append(@, mgr_next)]
             ELSE mgr_queue' = mgr_queue]_vars

\* C22: a job is sent to the target its guild had when add_message was called for
\* it, also when set_guild_config ran for the guild while the job was pending or
\* in flight: the call changes neither the dict a job refers to nor the reference.
DestinationFixedAtEnqueue ==
    /\ [](\A n \in MessageIds : sent_to[n] # NoChannel => sent_to[n] = enq_target[n])
    /\ [][\A n \in MessageIds :
             job_cfg[n] # NoDict
                => (job_cfg'[n] = job_cfg[n] /\ dicts'[job_cfg[n]] = dicts[job_cfg[n]])]_vars

\* a job was sent to its old target after set_guild_config had given the guild
\* another target while the job was waiting
SentToOldTarget ==
    \E n \in MessageIds :
        /\ reconfigured[n]
        /\ sent_to[n] # NoChannel
        /\ sent_to[n] = enq_target[n]
        /\ dicts[guild_ref].target # sent_to[n]

====
